---- MODULE Spec2Model ----
(***************************************************************************)
(* Model of the equation renderer: the GUI message handler (gui.rs), the   *)
(* LaTeX and Typst backends (latex.rs, typst.rs), the process runner       *)
(* (backends.rs), the cache directories and the process-global working     *)
(* directory.  Backend futures are dispatched with Command::perform and    *)
(* run on the executor; each effect on the file system or the working      *)
(* directory is one step, so calls in flight interleave at those steps.    *)
(***************************************************************************)
EXTENDS Integers, Sequences, FiniteSets, TLC

(* ----------------------------- bounds ---------------------------------- *)
\* number of user messages (edits, clicks) in one run
MaxMsgs == 3
\* number of backend futures that can be in flight at once
MaxTasks == 2
\* number of failures the environment injects in one run: a tool that does
\* not start or exits nonzero although its input is there, output that is not
\* UTF-8, a file write that fails
MaxFaults == 1
\* longest captured standard output and standard error, in characters
MaxLen == 4
MaxErrLen == 2
\* longest text of eq.svg, in characters
MaxSvgLen == 9

(* --------------------------- program constants ------------------------- *)
DEFAULT_COLOR == "white"
DefaultDpi == 600

(* ------------------------------ inputs --------------------------------- *)
Equations == {"", "a", "b"}
\* text typed into the color field ("" clears it)
ColorInputs == {"", "red"}
Colors == {DEFAULT_COLOR, "red"}
Formats == {"svg", "png"}
Backends == {"LaTeX", "Typst"}
\* text typed into the dpi field, as sequences of characters
DpiInputs == {<<>>, <<"x">>, <<"6", "0", "0">>}
\* the session's temporary directory (TempDir::new("typst_")) and the
\* directory the application was started in
TypstDir == "typst_"
StartDir == "start"

VARIABLES
    equation, color, compiled_color, format, dpi, state, backend,
    cwd,        \* the process-global current directory
    fs,         \* fs[dir] = [exists, files]
    tasks,      \* tasks[slot]: a backend future in flight (or Idle)
    msgs,       \* result messages delivered to the GUI, in order
    panicked,   \* the unwrap sites of the GUI thread that have failed
    nmsgs,      \* user messages so far
    nfaults,    \* injected failures so far
    rc,         \* one run_command call: captured output and its result
    sc,         \* set_color calls on one directory, with the files' text
    failure_delivered   \* history: a result message carrying an error has
                        \* been handled since the last user message

vars == <<equation, color, compiled_color, format, dpi, state,
          backend, cwd, fs, tasks, msgs, panicked, nmsgs, nfaults, rc, sc,
          failure_delivered>>

guiVars == <<equation, color, compiled_color, format, dpi, state,
             backend>>

(* ------------------------------ hashing -------------------------------- *)
\* DefaultHasher over the equation text: a fixed function of the text
equation_hash(eq) ==
    CASE eq = ""  -> 31
      [] eq = "a" -> 17
      [] eq = "b" -> 42
      [] OTHER    -> 0

\* a variant of get_dir that shortens the hash
get_dir_short_hash(hash) == "latex_" \o ToString(hash % 5)

\* CACHE_DIR.join(format!("latex_{hash}"))
get_dir(hash) == "latex_" \o ToString(hash)

cache_dir(be, eq) ==
    IF be = "LaTeX" THEN get_dir(equation_hash(eq)) ELSE TypstDir

LatexDirs == {get_dir(equation_hash(eq)) : eq \in Equations}
Dirs == LatexDirs \cup {TypstDir, StartDir}

(* ---------------------------- file system ------------------------------ *)
\* a file's content is what it was derived from
NoFile == [eq |-> "", color |-> "", dpi |-> -1]
Content(eq, c, d) == [eq |-> eq, color |-> c, dpi |-> d]

colored_name(c, fmt) == c \o "_eq." \o fmt

FileNames == {"eq.tex", "eq.dvi", "eq.svg", "eq.typ"}
             \cup {colored_name(c, f) : c \in Colors, f \in Formats}

EmptyDir == [f \in FileNames |-> NoFile]

DirExists(f, d) == d \in DOMAIN f /\ f[d].exists
FileExists(f, d, name) == DirExists(f, d) /\ f[d].files[name] # NoFile
ReadFile(f, d, name) == IF DirExists(f, d) THEN f[d].files[name] ELSE NoFile
\* a variant of WriteFile that opens the file for appending
WriteFile_appends(f, d, name, content) ==
    [f EXCEPT ![d].files[name] =
        IF f[d].files[name] = NoFile THEN content
        ELSE [content EXCEPT !.eq = f[d].files[name].eq \o content.eq]]

\* fs::write: the file is created, or truncated and written
WriteFile(f, d, name, content) ==
    [f EXCEPT ![d].files[name] = content]

(* ------------------------------- tasks --------------------------------- *)
Slots == 1..MaxTasks
Idle == [kind |-> "idle", eq |-> "", dir |-> "", color |-> "", dpi |-> 0,
         pc |-> "idle", initial_dir |-> "", svg |-> NoFile]
NewTask(kind, eq, dir, c, d, pc) ==
    [kind |-> kind, eq |-> eq, dir |-> dir, color |-> c, dpi |-> d,
     pc |-> pc, initial_dir |-> "", svg |-> NoFile]
NoTask == Idle

\* the message a future's result is wrapped in (Command::perform's closure)
result_message(kind) ==
    IF kind \in {"latex_gen_png", "typst_gen_png"}
    THEN "PngGenerated" ELSE "SvgGenerated"

FreeSlots == {s \in Slots : tasks[s].kind = "idle"}
FirstFree == CHOOSE s \in FreeSlots : \A t \in FreeSlots : s <= t
InFlight == {s \in Slots : tasks[s].kind # "idle"}

(* ------------------------------ GUI state ------------------------------ *)
Compiling == [tag |-> "Compiling", dir |-> "", err |-> ""]
Svg(dir) == [tag |-> "Svg", dir |-> dir, err |-> ""]
Png(dir) == [tag |-> "Png", dir |-> dir, err |-> ""]
Errored(e) == [tag |-> "Errored", dir |-> "", err |-> e]

color_of(c) == IF c = "" THEN DEFAULT_COLOR ELSE c

\* The LaTeX cache outlives the session: the program starts with what earlier
\* sessions left under the cache root, here one finished render (gen_svg of
\* CachedEquation in the default color).
CachedEquation == "a"
CachedFiles ==
    [f \in FileNames |->
        IF f \in {"eq.tex", "eq.dvi", "eq.svg"}
        THEN Content(CachedEquation, "", 0)
        ELSE IF f = colored_name(DEFAULT_COLOR, "svg")
             THEN Content(CachedEquation, DEFAULT_COLOR, 0)
             ELSE NoFile]

RcIdle == [pc |-> "off", command |-> "", outcome |-> "", status |-> 0,
           stdout |-> <<>>, stderr |-> <<>>,
           tag |-> "", message |-> <<>>, err_command |-> "",
           err_status |-> 0]

InitApp ==
    /\ equation = ""
    /\ color = ""
    /\ compiled_color = DEFAULT_COLOR
    /\ format = "svg"
    /\ dpi = DefaultDpi
    /\ state = Errored("NoEquation")
    /\ backend = "Typst"
    /\ cwd = StartDir
    /\ fs = [d \in Dirs |->
               IF d = get_dir(equation_hash(CachedEquation))
               THEN [exists |-> TRUE, files |-> CachedFiles]
               ELSE [exists |-> d \in {TypstDir, StartDir},
                     files |-> EmptyDir]]
    /\ tasks = [s \in Slots |-> Idle]
    /\ msgs = <<>>
    /\ panicked = {}
    /\ nmsgs = 0
    /\ nfaults = 0
    /\ failure_delivered = FALSE

ScIdle == [pc |-> 0, colors |-> <<>>, files |-> <<>>, initial |-> <<>>,
           results |-> <<>>, first |-> <<>>]

Init == InitApp /\ rc = RcIdle /\ sc = ScIdle

(* --------------------------- GUI: Gui::update -------------------------- *)
GuiAlive == panicked \cap {"copy_to_dest", "view"} = {}

\* fs::copy of <compiled_color>_eq.<format> from the cache directory to
\* out_dir: it fails when the source is missing, and it can fail when the
\* source is there (the destination is the user's to name and to remove)
copy_to_dest(f, be, eq, cc, fmt) ==
    IF FileExists(f, cache_dir(be, eq), colored_name(cc, fmt))
    THEN "copied_or_failed" ELSE "failed"

\* a variant of backend_gen_png that asks Typst for the SVG again
backend_gen_png_svg_again(be) ==
    IF be = "LaTeX" THEN "latex_gen_png" ELSE "typst_gen_svg"

\* Backend::gen_png
backend_gen_png(be) == IF be = "LaTeX" THEN "latex_gen_png" ELSE "typst_gen_png"

\* a variant of SvgGenerated that leaves an error on display
SvgGenerated_keeps_error(res, st, be, eq, col, cc, fmt, d) ==
    IF res = "Ok"
    THEN LET dir == cache_dir(be, eq) IN
         IF fmt = "svg"
         THEN [state |-> IF st.tag = "Errored" THEN st ELSE Svg(dir),
               task |-> NoTask,
               copy |-> copy_to_dest(fs, be, eq, cc, fmt)]
         ELSE [state |-> st,
               task |-> NewTask(backend_gen_png(be), eq, dir, color_of(col),
                                d, "current_dir"),
               copy |-> "none"]
    ELSE [state |-> Errored(res), task |-> NoTask, copy |-> "none"]

\* a variant of SvgGenerated that starts the render again when it failed
SvgGenerated_retries(res, st, be, eq, col, cc, fmt, d) ==
    IF res = "Ok"
    THEN LET dir == cache_dir(be, eq) IN
         IF fmt = "svg"
         THEN [state |-> Svg(dir), task |-> NoTask,
               copy |-> copy_to_dest(fs, be, eq, cc, fmt)]
         ELSE [state |-> st,
               task |-> NewTask(backend_gen_png(be), eq, dir, color_of(col),
                                d, "current_dir"),
               copy |-> "none"]
    ELSE [state |-> Errored(res),
          task |-> NewTask("typst_gen_svg", eq, TypstDir, color_of(col), d,
                           "current_dir"),
          copy |-> "none"]

\* Message::SvgGenerated(res) handled with the fields as given; the result
\* is the new state, the future to dispatch and whether the unwrap failed
SvgGenerated(res, st, be, eq, col, cc, fmt, d) ==
    IF res = "Ok"
    THEN LET dir == cache_dir(be, eq) IN
         IF fmt = "svg"
         THEN [state |-> Svg(dir), task |-> NoTask,
               copy |-> copy_to_dest(fs, be, eq, cc, fmt)]
         ELSE [state |-> st,
               task |-> NewTask(backend_gen_png(be), eq, dir, color_of(col),
                                d, "current_dir"),
               copy |-> "none"]
    ELSE [state |-> Errored(res), task |-> NoTask, copy |-> "none"]

\* Message::PngGenerated(res)
PngGenerated(res, be, eq, cc, fmt) ==
    IF res = "Ok"
    THEN [state |-> Png(cache_dir(be, eq)), task |-> NoTask,
          copy |-> copy_to_dest(fs, be, eq, cc, fmt)]
    ELSE [state |-> Errored(res), task |-> NoTask, copy |-> "none"]

\* variants of Compile with a slip in them
Compile_without_exists_check(be, eq, col, cc, fmt, d) ==
    IF eq = ""
    THEN [state |-> Errored("NoEquation"), task |-> NoTask, copy |-> "none",
          compiled_color |-> cc]
    ELSE [state |-> Compiling,
          task |-> IF be = "LaTeX"
                   THEN NewTask("latex_gen_svg", eq,
                                get_dir(equation_hash(eq)), color_of(col), d,
                                "current_dir")
                   ELSE NewTask("typst_gen_svg", eq, TypstDir, color_of(col),
                                d, "current_dir"),
          copy |-> "none", compiled_color |-> color_of(col)]

Compile_without_empty_check(be, eq, col, cc, fmt, d) ==
    LET c == color_of(col) IN
    IF be = "LaTeX"
    THEN LET dir == get_dir(equation_hash(eq)) IN
         IF DirExists(fs, dir)
         THEN IF FileExists(fs, dir, colored_name(c, fmt)) /\ fmt = "svg"
              THEN SvgGenerated("Ok", Compiling, be, eq, col, c, fmt, d)
                   @@ [compiled_color |-> c]
              ELSE [state |-> Compiling,
                    task |-> NewTask("latex_set_color", eq, dir, c, d,
                                     "read_svg"),
                    copy |-> "none", compiled_color |-> c]
         ELSE [state |-> Compiling,
               task |-> NewTask("latex_gen_svg", eq, dir, c, d,
                                "current_dir"),
               copy |-> "none", compiled_color |-> c]
    ELSE [state |-> Compiling,
          task |-> NewTask("typst_gen_svg", eq, TypstDir, c, d,
                           "current_dir"),
          copy |-> "none", compiled_color |-> c]

\* a variant of Compile that recolors whenever the directory is there
Compile_always_recolors(be, eq, col, cc, fmt, d) ==
    IF eq = ""
    THEN [state |-> Errored("NoEquation"), task |-> NoTask, copy |-> "none",
          compiled_color |-> cc]
    ELSE LET c == color_of(col) IN
         IF be = "LaTeX"
         THEN LET dir == get_dir(equation_hash(eq)) IN
              IF DirExists(fs, dir)
              THEN [state |-> Compiling,
                    task |-> NewTask("latex_set_color", eq, dir, c, d,
                                     "read_svg"),
                    copy |-> "none", compiled_color |-> c]
              ELSE [state |-> Compiling,
                    task |-> NewTask("latex_gen_svg", eq, dir, c, d,
                                     "current_dir"),
                    copy |-> "none", compiled_color |-> c]
         ELSE [state |-> Compiling,
               task |-> NewTask("typst_gen_svg", eq, TypstDir, c, d,
                                "current_dir"),
               copy |-> "none", compiled_color |-> c]

\* Message::Compile handled with the fields as given
Compile(be, eq, col, cc, fmt, d) ==
    IF eq = ""
    THEN [state |-> Errored("NoEquation"), task |-> NoTask, copy |-> "none",
          compiled_color |-> cc]
    ELSE LET c == color_of(col) IN
         IF be = "LaTeX"
         THEN LET dir == get_dir(equation_hash(eq)) IN
              IF DirExists(fs, dir)
              THEN IF FileExists(fs, dir, colored_name(c, fmt)) /\ fmt = "svg"
                   THEN SvgGenerated("Ok", Compiling, be, eq, col, c, fmt, d)
                        @@ [compiled_color |-> c]
                   ELSE [state |-> Compiling,
                         task |-> NewTask("latex_set_color", eq, dir, c, d,
                                          "read_svg"),
                         copy |-> "none", compiled_color |-> c]
              ELSE [state |-> Compiling,
                    task |-> NewTask("latex_gen_svg", eq, dir, c, d,
                                     "current_dir"),
                    copy |-> "none", compiled_color |-> c]
         ELSE [state |-> Compiling,
               task |-> NewTask("typst_gen_svg", eq, TypstDir, c, d,
                                "current_dir"),
               copy |-> "none", compiled_color |-> c]

\* Command::perform: hand the future to the executor
Dispatch(task) ==
    IF task = NoTask
    THEN tasks' = tasks
    ELSE /\ FreeSlots # {}
         /\ tasks' = [tasks EXCEPT ![FirstFree] = task]

\* the part of a handler every message shares: the effect of the Compile
\* (or result) it ends with
Finish(r) ==
    /\ state' = r.state
    /\ Dispatch(r.task)
    /\ \/ r.copy \in {"none", "copied_or_failed"} /\ panicked' = panicked
       \/ r.copy \in {"failed", "copied_or_failed"}
          /\ panicked' = panicked \cup {"copy_to_dest"}

UserMessage ==
    /\ GuiAlive
    /\ nmsgs < MaxMsgs
    /\ nmsgs' = nmsgs + 1
    /\ failure_delivered' = FALSE
    /\ UNCHANGED <<cwd, fs, msgs, nfaults, rc, sc>>

MsgEditEquation(eq) ==
    /\ UserMessage
    /\ eq # equation
    /\ equation' = eq
    /\ IF backend = "Typst"
       THEN LET r == Compile(backend, eq, color, compiled_color, format, dpi) IN
            /\ Finish(r)
            /\ compiled_color' = r.compiled_color
       ELSE UNCHANGED <<state, tasks, panicked, compiled_color>>
    /\ UNCHANGED <<color, format, dpi, backend>>

MsgColor(c) ==
    /\ UserMessage
    /\ c # color
    /\ color' = c
    /\ UNCHANGED <<equation, compiled_color, format, dpi, state,
                   backend, tasks, panicked>>

MsgCompile ==
    /\ UserMessage
    /\ LET r == Compile(backend, equation, color, compiled_color, format, dpi) IN
       /\ Finish(r)
       /\ compiled_color' = r.compiled_color
    /\ UNCHANGED <<equation, color, format, dpi, backend>>

MsgFormat(f) ==
    /\ UserMessage
    /\ f # format
    /\ format' = f
    /\ LET r == Compile(backend, equation, color, compiled_color, f, dpi) IN
       /\ Finish(r)
       /\ compiled_color' = r.compiled_color
    /\ UNCHANGED <<equation, color, dpi, backend>>

Digits == <<"0", "1", "2", "3", "4", "5", "6", "7", "8", "9">>
IsDigit(ch) == \E i \in 1..10 : Digits[i] = ch
DigitVal(ch) == (CHOOSE i \in 1..10 : Digits[i] = ch) - 1

RECURSIVE parse_digits(_, _)
parse_digits(str, acc) ==
    IF str = <<>> THEN acc
    ELSE IF IsDigit(Head(str))
         THEN parse_digits(Tail(str), acc * 10 + DigitVal(Head(str)))
         ELSE -1

\* str::parse::<usize>: -1 stands for Err
parse_usize(str) == IF str = <<>> THEN -1 ELSE parse_digits(str, 0)

set_dpi(old, str) ==
    IF str = <<>> THEN 0
    ELSE IF parse_usize(str) >= 0 THEN parse_usize(str) ELSE old

MsgSetDpi(str) ==
    /\ UserMessage
    /\ dpi' = set_dpi(dpi, str)
    /\ LET r == Compile(backend, equation, color, compiled_color, format,
                        set_dpi(dpi, str)) IN
       /\ Finish(r)
       /\ compiled_color' = r.compiled_color
    /\ UNCHANGED <<equation, color, format, backend>>

switch(be) == IF be = "LaTeX" THEN "Typst" ELSE "LaTeX"

MsgSwitchBackend ==
    /\ UserMessage
    /\ backend' = switch(backend)
    /\ LET r == Compile(switch(backend), equation, color, compiled_color,
                        format, dpi) IN
       /\ Finish(r)
       /\ compiled_color' = r.compiled_color
    /\ UNCHANGED <<equation, color, format, dpi>>

\* a result message delivered by the runtime: Message::SvgGenerated or
\* Message::PngGenerated
MsgResult ==
    /\ GuiAlive
    /\ msgs # <<>>
    /\ msgs' = Tail(msgs)
    /\ LET m == Head(msgs)
           r == IF m.type = "SvgGenerated"
                THEN SvgGenerated(m.res, state, backend, equation, color,
                                  compiled_color, format, dpi)
                ELSE PngGenerated(m.res, backend, equation, compiled_color,
                                  format)
       IN Finish(r)
    /\ failure_delivered' = (failure_delivered \/ Head(msgs).res # "Ok")
    /\ UNCHANGED <<equation, color, compiled_color, format, dpi,
                   backend, cwd, fs, nmsgs, nfaults, rc, sc>>

\* Gui::view reads the displayed artifact and unwraps the result
view_file_missing ==
    \/ state.tag = "Svg"
       /\ ~FileExists(fs, state.dir, colored_name(compiled_color, "svg"))
    \/ state.tag = "Png"
       /\ ~FileExists(fs, state.dir, colored_name(compiled_color, "png"))

View ==
    /\ GuiAlive
    /\ view_file_missing
    /\ panicked' = panicked \cup {"view"}
    /\ UNCHANGED <<guiVars, cwd, fs, tasks, msgs, nmsgs, nfaults, rc, sc,
                   failure_delivered>>

(* ------------------------- backend futures ----------------------------- *)
At(s, kinds, pc) ==
    /\ GuiAlive
    /\ tasks[s].kind \in kinds
    /\ tasks[s].pc = pc

Goto(s, pc) == tasks' = [tasks EXCEPT ![s].pc = pc]

\* the result message of call t; dir, the directory the call worked for, is
\* kept for the record (the Rust message carries only the Result)
Result(t, res) ==
    [type |-> result_message(t.kind), res |-> res, dir |-> t.dir]

\* a variant of Return in which the result is lost on its way to the GUI
Return_drops_result(s, res) ==
    /\ tasks' = [tasks EXCEPT ![s] = Idle]
    /\ msgs' = msgs

\* the future completes with res; the runtime queues the result message
Return(s, res) ==
    /\ tasks' = [tasks EXCEPT ![s] = Idle]
    /\ msgs' = Append(msgs, Result(tasks[s], res))

\* a step that is an injected failure uses up the budget
Fault(injected) ==
    IF injected
    THEN nfaults < MaxFaults /\ nfaults' = nfaults + 1
    ELSE nfaults' = nfaults

\* what one external process can do: fail to start, exit with status zero,
\* exit nonzero, or write output that is not UTF-8
Outcomes == {"spawn_fail", "exit_ok", "exit_fail", "bad_utf8"}

\* a variant of run_command whose caller goes on after a nonzero exit
run_command_ignores_exit_status(s, tool, input, output, content, outcome, pc) ==
    /\ outcome = "exit_ok" => FileExists(fs, cwd, input)
    /\ Fault(~(outcome = "exit_ok"
               \/ (outcome = "exit_fail" /\ ~FileExists(fs, cwd, input))))
    /\ CASE outcome = "exit_ok" ->
              /\ fs' = WriteFile(fs, cwd, output, content)
              /\ Goto(s, pc)
              /\ UNCHANGED <<msgs, panicked>>
         [] outcome = "bad_utf8" ->
              \* utf8_to_string's expect fails: the future dies on its
              \* worker thread and never delivers a result
              /\ Goto(s, "panicked")
              /\ UNCHANGED <<fs, msgs, panicked>>
         [] outcome = "spawn_fail" ->
              /\ Return(s, "ErrorSpawning")
              /\ UNCHANGED <<fs, panicked>>
         [] OTHER ->
              /\ Goto(s, pc)
              /\ UNCHANGED <<fs, msgs, panicked>>
    /\ UNCHANGED <<guiVars, cwd, nmsgs, rc, sc,
                   failure_delivered>>

\* run_command(tool, ..) by future s, with the child started in the current
\* directory: it reads `input` and, on success, writes `output` there
run_command(s, tool, input, output, content, outcome, pc) ==
    /\ outcome = "exit_ok" => FileExists(fs, cwd, input)
    /\ Fault(~(outcome = "exit_ok"
               \/ (outcome = "exit_fail" /\ ~FileExists(fs, cwd, input))))
    /\ CASE outcome = "exit_ok" ->
              /\ fs' = WriteFile(fs, cwd, output, content)
              /\ Goto(s, pc)
              /\ UNCHANGED <<msgs, panicked>>
         [] outcome = "bad_utf8" ->
              \* utf8_to_string's expect fails: the future dies on its
              \* worker thread and never delivers a result
              /\ Goto(s, "panicked")
              /\ UNCHANGED <<fs, msgs, panicked>>
         [] outcome = "spawn_fail" ->
              /\ Return(s, "ErrorSpawning")
              /\ UNCHANGED <<fs, panicked>>
         [] OTHER ->
              /\ Return(s, "CommandError")
              /\ UNCHANGED <<fs, panicked>>
    /\ UNCHANGED <<guiVars, cwd, nmsgs, rc, sc,
                   failure_delivered>>

\* env::current_dir() at the start of gen_svg, gen_png and gen_image
current_dir(s, kinds, pc) ==
    /\ At(s, kinds, "current_dir")
    /\ tasks' = [tasks EXCEPT ![s].initial_dir = cwd, ![s].pc = pc]
    /\ UNCHANGED <<guiVars, cwd, fs, msgs, panicked, nmsgs, nfaults, rc, sc,
                   failure_delivered>>

\* env::set_current_dir(&dir)
set_current_dir(s, kinds, pc) ==
    /\ At(s, kinds, "set_current_dir")
    /\ IF DirExists(fs, tasks[s].dir)
       THEN /\ cwd' = tasks[s].dir
            /\ Goto(s, pc)
            /\ msgs' = msgs
       ELSE /\ cwd' = cwd
            /\ Return(s, "GetSetCurrentDir")
    /\ UNCHANGED <<guiVars, fs, panicked, nmsgs, nfaults, rc, sc,
                   failure_delivered>>

\* a variant of restore_dir that returns Ok without going back
restore_dir_stays(s, kinds) ==
    /\ At(s, kinds, "restore")
    /\ cwd' = cwd
    /\ Return(s, "Ok")
    /\ UNCHANGED <<guiVars, fs, panicked, nmsgs, nfaults, rc, sc,
                   failure_delivered>>

\* env::set_current_dir(initial_dir) and the Ok return
restore_dir(s, kinds) ==
    /\ At(s, kinds, "restore")
    /\ IF DirExists(fs, tasks[s].initial_dir)
       THEN /\ cwd' = tasks[s].initial_dir
            /\ Return(s, "Ok")
       ELSE /\ cwd' = cwd
            /\ Return(s, "GetSetCurrentDir")
    /\ UNCHANGED <<guiVars, fs, panicked, nmsgs, nfaults, rc, sc,
                   failure_delivered>>

\* a variant of write_relative that puts the working directory back as soon as
\* the source is written
write_relative_restores(s, kinds, name, content, ok, pc) ==
    /\ At(s, kinds, "write_src")
    /\ IF ok
       THEN /\ fs' = WriteFile(fs, cwd, name, content)
            /\ Goto(s, pc)
            /\ msgs' = msgs
       ELSE /\ fs' = fs
            /\ Return(s, "WriteFile")
    /\ Fault(~ok)
    /\ cwd' = tasks[s].initial_dir
    /\ UNCHANGED <<guiVars, panicked, nmsgs, rc, sc,
                   failure_delivered>>

\* fs::write(name, ..) with a relative path: the file lands in the current
\* directory
write_relative(s, kinds, name, content, ok, pc) ==
    /\ At(s, kinds, "write_src")
    /\ IF ok
       THEN /\ fs' = WriteFile(fs, cwd, name, content)
            /\ Goto(s, pc)
            /\ msgs' = msgs
       ELSE /\ fs' = fs
            /\ Return(s, "WriteFile")
    /\ Fault(~ok)
    /\ UNCHANGED <<guiVars, cwd, panicked, nmsgs, rc, sc,
                   failure_delivered>>

(* latex::gen_svg *)
GenSvgCurrentDir(s) == current_dir(s, {"latex_gen_svg"}, "create_dir")

\* a variant of GenSvgCreateDir that accepts a directory that is there
\* (fs::create_dir_all)
GenSvgCreateDir_all(s) ==
    /\ At(s, {"latex_gen_svg"}, "create_dir")
    /\ fs' = [fs EXCEPT ![tasks[s].dir].exists = TRUE]
    /\ Goto(s, "set_current_dir")
    /\ msgs' = msgs
    /\ UNCHANGED <<guiVars, cwd, panicked, nmsgs, nfaults, rc, sc,
                   failure_delivered>>

\* fs::create_dir(&dir)
GenSvgCreateDir(s) ==
    /\ At(s, {"latex_gen_svg"}, "create_dir")
    /\ IF DirExists(fs, tasks[s].dir)
       THEN /\ fs' = fs
            /\ Return(s, "TempDir")
       ELSE /\ fs' = [fs EXCEPT ![tasks[s].dir].exists = TRUE]
            /\ Goto(s, "set_current_dir")
            /\ msgs' = msgs
    /\ UNCHANGED <<guiVars, cwd, panicked, nmsgs, nfaults, rc, sc,
                   failure_delivered>>

GenSvgSetCurrentDir(s) == set_current_dir(s, {"latex_gen_svg"}, "write_src")

GenSvgWriteTex(s, ok) ==
    write_relative(s, {"latex_gen_svg"}, "eq.tex",
                   Content(tasks[s].eq, "", 0), ok, "latex")

GenSvgLatex(s, outcome) ==
    /\ At(s, {"latex_gen_svg"}, "latex")
    /\ run_command(s, "latex", "eq.tex", "eq.dvi",
                   ReadFile(fs, cwd, "eq.tex"), outcome, "dvisvgm")

GenSvgDvisvgm(s, outcome) ==
    /\ At(s, {"latex_gen_svg"}, "dvisvgm")
    /\ run_command(s, "dvisvgm", "eq.dvi", "eq.svg",
                   ReadFile(fs, cwd, "eq.dvi"), outcome, "read_svg")

GenSvgRestore(s) == restore_dir(s, {"latex_gen_svg"})

(* latex::set_color, called by gen_svg or dispatched on its own *)
\* str::replace("#fff", color) on the text of eq.svg
replace_color(svg, c) == [svg EXCEPT !.color = c]

SetColorRead(s) ==
    /\ At(s, {"latex_gen_svg", "latex_set_color"}, "read_svg")
    /\ IF FileExists(fs, tasks[s].dir, "eq.svg")
       THEN /\ tasks' = [tasks EXCEPT
                  ![s].svg = replace_color(ReadFile(fs, tasks[s].dir, "eq.svg"),
                                           tasks[s].color),
                  ![s].pc = "write_svg"]
            /\ msgs' = msgs
       ELSE Return(s, "ReadFile")
    /\ UNCHANGED <<guiVars, cwd, fs, panicked, nmsgs, nfaults, rc, sc,
                   failure_delivered>>

SetColorWrite(s, ok) ==
    /\ At(s, {"latex_gen_svg", "latex_set_color"}, "write_svg")
    /\ IF ok
       THEN /\ fs' = WriteFile(fs, tasks[s].dir,
                               colored_name(tasks[s].color, "svg"),
                               tasks[s].svg)
            /\ IF tasks[s].kind = "latex_gen_svg"
               THEN Goto(s, "restore") /\ msgs' = msgs
               ELSE Return(s, "Ok")
       ELSE /\ fs' = fs
            /\ Return(s, "WriteFile")
    /\ Fault(~ok)
    /\ UNCHANGED <<guiVars, cwd, panicked, nmsgs, rc, sc,
                   failure_delivered>>

(* latex::gen_png *)
GenPngCurrentDir(s) == current_dir(s, {"latex_gen_png"}, "set_current_dir")

GenPngSetCurrentDir(s) == set_current_dir(s, {"latex_gen_png"}, "magick")

GenPngMagick(s, outcome) ==
    /\ At(s, {"latex_gen_png"}, "magick")
    /\ LET src == ReadFile(fs, cwd, colored_name(tasks[s].color, "svg")) IN
       run_command(s, "magick", colored_name(tasks[s].color, "svg"),
                   colored_name(tasks[s].color, "png"),
                   [src EXCEPT !.dpi = tasks[s].dpi], outcome, "restore")

GenPngRestore(s) == restore_dir(s, {"latex_gen_png"})

(* typst::gen_image, for Image::Svg and Image::Png(dpi) *)
TypstKinds == {"typst_gen_svg", "typst_gen_png"}

GenImageCurrentDir(s) == current_dir(s, TypstKinds, "set_current_dir")

GenImageSetCurrentDir(s) == set_current_dir(s, TypstKinds, "write_src")

GenImageWriteTyp(s, ok) ==
    write_relative(s, TypstKinds, "eq.typ",
                   Content(tasks[s].eq, tasks[s].color, 0), ok, "typst")

GenImageCompile(s, outcome) ==
    /\ At(s, TypstKinds, "typst")
    /\ LET src == ReadFile(fs, cwd, "eq.typ")
           ext == IF tasks[s].kind = "typst_gen_svg" THEN "svg" ELSE "png"
           out == IF ext = "svg" THEN src
                  ELSE [src EXCEPT !.dpi = tasks[s].dpi]
       IN run_command(s, "typst", "eq.typ",
                      colored_name(tasks[s].color, ext), out, outcome,
                      "restore")

GenImageRestore(s) == restore_dir(s, TypstKinds)

(* ----------------------------- the program ----------------------------- *)
Next ==
    \/ \E eq \in Equations : MsgEditEquation(eq)
    \/ \E c \in ColorInputs : MsgColor(c)
    \/ MsgCompile
    \/ \E f \in Formats : MsgFormat(f)
    \/ \E str \in DpiInputs : MsgSetDpi(str)
    \/ MsgSwitchBackend
    \/ MsgResult
    \/ View
    \/ \E s \in Slots : GenSvgCurrentDir(s)
    \/ \E s \in Slots : GenSvgCreateDir(s)
    \/ \E s \in Slots : GenSvgSetCurrentDir(s)
    \/ \E s \in Slots, ok \in BOOLEAN : GenSvgWriteTex(s, ok)
    \/ \E s \in Slots, o \in Outcomes : GenSvgLatex(s, o)
    \/ \E s \in Slots, o \in Outcomes : GenSvgDvisvgm(s, o)
    \/ \E s \in Slots : SetColorRead(s)
    \/ \E s \in Slots, ok \in BOOLEAN : SetColorWrite(s, ok)
    \/ \E s \in Slots : GenSvgRestore(s)
    \/ \E s \in Slots : GenPngCurrentDir(s)
    \/ \E s \in Slots : GenPngSetCurrentDir(s)
    \/ \E s \in Slots, o \in Outcomes : GenPngMagick(s, o)
    \/ \E s \in Slots : GenPngRestore(s)
    \/ \E s \in Slots : GenImageCurrentDir(s)
    \/ \E s \in Slots : GenImageSetCurrentDir(s)
    \/ \E s \in Slots, ok \in BOOLEAN : GenImageWriteTyp(s, ok)
    \/ \E s \in Slots, o \in Outcomes : GenImageCompile(s, o)
    \/ \E s \in Slots : GenImageRestore(s)

Spec == Init /\ [][Next]_vars

(* ------------------------- later in a session ------------------------- *)
\* The user has switched to LaTeX, typed the cached equation and picked PNG:
\* Compile found the directory and dispatched set_color, and the handler of
\* its result has just dispatched gen_png.  The user messages that led here
\* count as one.
InitMidSession ==
    /\ equation = CachedEquation
    /\ color = ""
    /\ compiled_color = DEFAULT_COLOR
    /\ format = "png"
    /\ dpi = DefaultDpi
    /\ state = Compiling
    /\ backend = "LaTeX"
    /\ cwd = StartDir
    /\ fs = [d \in Dirs |->
               IF d = get_dir(equation_hash(CachedEquation))
               THEN [exists |-> TRUE, files |-> CachedFiles]
               ELSE [exists |-> d \in {TypstDir, StartDir},
                     files |-> EmptyDir]]
    /\ tasks = [s \in Slots |->
                  IF s = 1
                  THEN NewTask("latex_gen_png", CachedEquation,
                               get_dir(equation_hash(CachedEquation)),
                               DEFAULT_COLOR, DefaultDpi, "current_dir")
                  ELSE Idle]
    /\ msgs = <<>>
    /\ panicked = {}
    /\ nmsgs = 1
    /\ nfaults = 0
    /\ failure_delivered = FALSE
    /\ rc = RcIdle
    /\ sc = ScIdle

SpecMidSession == InitMidSession /\ [][Next]_vars

(* ------------------ renders one after the other ------------------------ *)
\* The user has switched to LaTeX, typed an equation and a color and picked a
\* format, and now asks for the render: with Compile, or with SwitchBackend
\* for Typst; then asks again with Compile once the render is over.  The
\* tools are deterministic and nothing fails.
\* n: what the user messages that led here count for
RequestTyped(n) ==
    /\ equation \in Equations \ {""}
    /\ color \in ColorInputs
    /\ format \in Formats
    /\ backend = "LaTeX"
    /\ compiled_color = DEFAULT_COLOR
    /\ dpi = DefaultDpi
    /\ state = Errored("NoEquation")
    /\ cwd = StartDir
    /\ fs = [d \in Dirs |->
               IF d = get_dir(equation_hash(CachedEquation))
               THEN [exists |-> TRUE, files |-> CachedFiles]
               ELSE [exists |-> d \in {TypstDir, StartDir},
                     files |-> EmptyDir]]
    /\ tasks = [s \in Slots |-> Idle]
    /\ msgs = <<>>
    /\ panicked = {}
    /\ nmsgs = n
    /\ nfaults = 0
    /\ failure_delivered = FALSE
    /\ rc = RcIdle
    /\ sc = ScIdle

InitRequest == RequestTyped(0)

\* no render is in flight and no result is waiting
Quiet == InFlight = {} /\ msgs = <<>>

RenderWhenQuiet ==
    /\ Quiet
    /\ \/ MsgCompile
       \/ nmsgs = 0 /\ MsgSwitchBackend

NextRenderTwice ==
    \/ RenderWhenQuiet
    \/ MsgResult
    \/ \E s \in Slots : GenSvgCurrentDir(s)
    \/ \E s \in Slots : GenSvgCreateDir(s)
    \/ \E s \in Slots : GenSvgSetCurrentDir(s)
    \/ \E s \in Slots : GenSvgWriteTex(s, TRUE)
    \/ \E s \in Slots : GenSvgLatex(s, "exit_ok")
    \/ \E s \in Slots : GenSvgDvisvgm(s, "exit_ok")
    \/ \E s \in Slots : SetColorRead(s)
    \/ \E s \in Slots : SetColorWrite(s, TRUE)
    \/ \E s \in Slots : GenSvgRestore(s)
    \/ \E s \in Slots : GenPngCurrentDir(s)
    \/ \E s \in Slots : GenPngSetCurrentDir(s)
    \/ \E s \in Slots : GenPngMagick(s, "exit_ok")
    \/ \E s \in Slots : GenPngRestore(s)
    \/ \E s \in Slots : GenImageCurrentDir(s)
    \/ \E s \in Slots : GenImageSetCurrentDir(s)
    \/ \E s \in Slots : GenImageWriteTyp(s, TRUE)
    \/ \E s \in Slots : GenImageCompile(s, "exit_ok")
    \/ \E s \in Slots : GenImageRestore(s)

SpecRenderTwice == InitRequest /\ [][NextRenderTwice]_vars

(* ---------------------- renders that terminate ------------------------ *)
\* The executor runs every future that can take a step and the runtime
\* delivers every queued result; every tool invocation terminates, with
\* output that is UTF-8 (the assumption utf8_to_string states).
UtfOutcomes == Outcomes \ {"bad_utf8"}

FutureStep ==
    \E s \in Slots :
        \/ GenSvgCurrentDir(s)
        \/ GenSvgCreateDir(s)
        \/ GenSvgSetCurrentDir(s)
        \/ \E ok \in BOOLEAN : GenSvgWriteTex(s, ok)
        \/ \E o \in UtfOutcomes : GenSvgLatex(s, o)
        \/ \E o \in UtfOutcomes : GenSvgDvisvgm(s, o)
        \/ SetColorRead(s)
        \/ \E ok \in BOOLEAN : SetColorWrite(s, ok)
        \/ GenSvgRestore(s)
        \/ GenPngCurrentDir(s)
        \/ GenPngSetCurrentDir(s)
        \/ \E o \in UtfOutcomes : GenPngMagick(s, o)
        \/ GenPngRestore(s)
        \/ GenImageCurrentDir(s)
        \/ GenImageSetCurrentDir(s)
        \/ \E ok \in BOOLEAN : GenImageWriteTyp(s, ok)
        \/ \E o \in UtfOutcomes : GenImageCompile(s, o)
        \/ GenImageRestore(s)

NextLive ==
    \/ MsgCompile
    \/ MsgSwitchBackend
    \/ MsgResult
    \/ FutureStep

InitLive == RequestTyped(1) /\ color = ""

SpecLive ==
    /\ InitLive
    /\ [][NextLive]_vars
    /\ WF_vars(MsgResult \/ FutureStep)

(* ------------------- backends::run_command, in detail ------------------ *)
\* captured output is a sequence of characters
Chars == {"!", "a", " ", "\n"}
AsciiWhitespace == {" ", "\n"}
Strings(n) == UNION {[1..k -> Chars] : k \in 0..n}

\* str::find(ch): the index of the first occurrence, 0 for None
find(str, ch) ==
    IF \E i \in 1..Len(str) : str[i] = ch
    THEN CHOOSE i \in 1..Len(str) :
            str[i] = ch /\ \A j \in 1..(i - 1) : str[j] # ch
    ELSE 0

\* str::lines(): split at "\n"; a final empty line is not produced
RECURSIVE lines(_)
lines(str) ==
    IF str = <<>> THEN <<>>
    ELSE LET i == find(str, "\n") IN
         IF i = 0 THEN <<str>>
         ELSE <<SubSeq(str, 1, i - 1)>> \o lines(SubSeq(str, i + 1, Len(str)))

\* |l| l.chars().any(|c| !c.is_ascii_whitespace())
not_blank(l) == \E i \in 1..Len(l) : l[i] \notin AsciiWhitespace

RECURSIVE take_while_not_blank(_)
take_while_not_blank(ls) ==
    IF ls = <<>> \/ ~not_blank(Head(ls)) THEN <<>>
    ELSE <<Head(ls)>> \o take_while_not_blank(Tail(ls))

\* Itertools::join("\n")
RECURSIVE join(_)
join(ls) ==
    IF ls = <<>> THEN <<>>
    ELSE IF Len(ls) = 1 THEN Head(ls)
    ELSE Head(ls) \o <<"\n">> \o join(Tail(ls))

\* variants of extract_message with a slip in them
bang_rule(text) ==
    IF find(text, "!") # 0
    THEN join(take_while_not_blank(
             lines(SubSeq(text, find(text, "!"), Len(text)))))
    ELSE text

extract_message_rule_on_stderr(stdout, stderr) ==
    bang_rule(IF stdout = <<>> THEN stderr ELSE stdout)

extract_message_keep_blank_lines(stdout, stderr) ==
    IF stdout = <<>> THEN stderr
    ELSE IF find(stdout, "!") # 0
         THEN join(lines(SubSeq(stdout, find(stdout, "!"), Len(stdout))))
         ELSE stdout

extract_message_always_truncates(stdout, stderr) ==
    IF stdout = <<>> THEN stderr
    ELSE join(take_while_not_blank(
             lines(SubSeq(stdout, IF find(stdout, "!") # 0
                                  THEN find(stdout, "!") ELSE 1,
                          Len(stdout)))))

\* the message of CommandError::Error
extract_message(stdout, stderr) ==
    IF stdout = <<>> THEN stderr
    ELSE IF find(stdout, "!") # 0
         THEN join(take_while_not_blank(
                  lines(SubSeq(stdout, find(stdout, "!"), Len(stdout)))))
         ELSE stdout

\* the shape of run_command's results: Ok(String),
\* CommandError::ErrorSpawning(String), CommandError::Error { status,
\* command, message }, and the failed expect of utf8_to_string
RcResult(tag, message, command, status) ==
    [tag |-> tag, message |-> message, err_command |-> command,
     err_status |-> status]

\* a variant of run_command_result that looks at the captured output
\* instead of the exit status
run_command_result_by_output(command, outcome, status, stdout, stderr) ==
    CASE outcome = "spawn_fail" -> RcResult("ErrorSpawning", <<>>, command, 0)
      [] outcome = "bad_utf8"   -> RcResult("panic", <<>>, "", 0)
      [] stderr = <<>>          -> RcResult("Ok", stdout, "", 0)
      [] OTHER -> RcResult("Error", extract_message(stdout, stderr),
                           command, status)

\* the value run_command returns for one child process
run_command_result(command, outcome, status, stdout, stderr) ==
    CASE outcome = "spawn_fail" -> RcResult("ErrorSpawning", <<>>, command, 0)
      [] outcome = "bad_utf8"   -> RcResult("panic", <<>>, "", 0)
      [] status = 0             -> RcResult("Ok", stdout, "", 0)
      [] OTHER -> RcResult("Error", extract_message(stdout, stderr),
                           command, status)

\* the executables, and the exit statuses of a child that ran
Commands == {"latex", "typst"}
ExitStatuses == {0, 1, 2}
StatusOf(o) == IF o = "exit_ok" THEN {0}
               ELSE IF o = "exit_fail" THEN ExitStatuses \ {0}
               ELSE {0}

RcCalls ==
    {r \in [pc : {"call"}, command : Commands, outcome : Outcomes,
            status : ExitStatuses, stdout : Strings(MaxLen),
            stderr : Strings(MaxErrLen), tag : {""}, message : {<<>>},
            err_command : {""}, err_status : {0}] :
        r.status \in StatusOf(r.outcome)}

RunCommand ==
    /\ rc.pc = "call"
    /\ LET r == run_command_result(rc.command, rc.outcome, rc.status,
                                   rc.stdout, rc.stderr) IN
       rc' = [rc EXCEPT !.pc = "ret", !.tag = r.tag, !.message = r.message,
                        !.err_command = r.err_command,
                        !.err_status = r.err_status]
    /\ UNCHANGED <<guiVars, cwd, fs, tasks, msgs, panicked, nmsgs, nfaults,
                   sc, failure_delivered>>

InitRunCommand == InitApp /\ rc \in RcCalls /\ sc = ScIdle
NextRunCommand == RunCommand
SpecRunCommand == InitRunCommand /\ [][NextRunCommand]_vars

(* --------------------- latex::set_color, in detail --------------------- *)
\* the text of an SVG file is a sequence of characters
SvgChars == {"#", "f", "a"}
SvgTexts == UNION {[1..k -> SvgChars] : k \in 0..MaxSvgLen}
\* the fill color dvisvgm writes, which set_color looks for
PLACEHOLDER == <<"#", "f", "f", "f">>
\* colors a user can name; the last one contains the placeholder
ColorTexts == {<<"r", "e", "d">>, <<"#", "f", "f", "f", "a">>}

starts_with(str, pat) ==
    Len(str) >= Len(pat) /\ SubSeq(str, 1, Len(pat)) = pat

\* a variant of str_replace that stops after the first match (str::replacen
\* with a count of one)
RECURSIVE str_replace_first(_, _, _)
str_replace_first(str, from, to) ==
    IF str = <<>> THEN <<>>
    ELSE IF starts_with(str, from)
         THEN to \o SubSeq(str, Len(from) + 1, Len(str))
         ELSE <<Head(str)>> \o str_replace_first(Tail(str), from, to)

\* str::replace(from, to): the matches are found from left to right, each
\* search starting after the end of the match before it
RECURSIVE str_replace(_, _, _)
str_replace(str, from, to) ==
    IF str = <<>> THEN <<>>
    ELSE IF starts_with(str, from)
         THEN to \o str_replace(SubSeq(str, Len(from) + 1, Len(str)),
                                from, to)
         ELSE <<Head(str)>> \o str_replace(Tail(str), from, to)

\* file names in the cache directory
EqSvg == <<"e", "q", ".", "s", "v", "g">>
\* a variant of path_colored that names the source file
path_colored_is_source(c) == EqSvg
\* dir.join(format!("{color}_eq.svg"))
path_colored(c) == c \o <<"_">> \o EqSvg
ScNames == {EqSvg} \cup {path_colored(c) : c \in ColorTexts}
Missing == [exists |-> FALSE, text |-> <<>>]
File(text) == [exists |-> TRUE, text |-> text]

\* the calls set_color(hash, c1).await; set_color(hash, c2).await on a
\* directory that holds eq.svg (or does not)
ScCalls ==
    {[pc |-> 1, colors |-> cs, files |-> fl, initial |-> fl,
      results |-> <<>>, first |-> <<>>] :
        cs \in ColorTexts \X ColorTexts,
        fl \in {[n \in ScNames |-> IF n = EqSvg THEN src ELSE Missing] :
                   src \in {File(t) : t \in SvgTexts} \cup {Missing}}}

\* the results of set_color: Ok(()), GuiError::ReadFile(name) and
\* GuiError::WriteFile(path)
ScResult(tag, path) == [tag |-> tag, path |-> path]

\* a variant of SetColor that creates the destination before it reads the
\* source
SetColor_creates_first(ok) ==
    /\ sc.pc \in 1..Len(sc.colors)
    /\ LET c == sc.colors[sc.pc]
           res == IF ~sc.files[EqSvg].exists THEN ScResult("ReadFile", EqSvg)
                  ELSE IF ok THEN ScResult("Ok", <<>>)
                  ELSE ScResult("WriteFile", path_colored(c))
           svg == str_replace(sc.files[EqSvg].text, PLACEHOLDER, c)
           after == IF res.tag = "Ok"
                    THEN [sc.files EXCEPT ![path_colored(c)] = File(svg)]
                    ELSE [sc.files EXCEPT ![path_colored(c)] = File(<<>>)]
       IN sc' = [sc EXCEPT !.pc = sc.pc + 1,
                           !.files = after,
                           !.results = Append(sc.results, res),
                           !.first = IF sc.pc = 1 THEN after ELSE sc.first]
    /\ UNCHANGED <<guiVars, cwd, fs, tasks, msgs, panicked, nmsgs, nfaults,
                   rc, failure_delivered>>

\* one call of set_color: read eq.svg, replace, write <color>_eq.svg
SetColor(ok) ==
    /\ sc.pc \in 1..Len(sc.colors)
    /\ LET c == sc.colors[sc.pc]
           res == IF ~sc.files[EqSvg].exists THEN ScResult("ReadFile", EqSvg)
                  ELSE IF ok THEN ScResult("Ok", <<>>)
                  ELSE ScResult("WriteFile", path_colored(c))
           svg == str_replace(sc.files[EqSvg].text, PLACEHOLDER, c)
           after == IF res.tag = "Ok"
                    THEN [sc.files EXCEPT ![path_colored(c)] = File(svg)]
                    ELSE sc.files
       IN sc' = [sc EXCEPT !.pc = sc.pc + 1,
                           !.files = after,
                           !.results = Append(sc.results, res),
                           !.first = IF sc.pc = 1 THEN after ELSE sc.first]
    /\ UNCHANGED <<guiVars, cwd, fs, tasks, msgs, panicked, nmsgs, nfaults,
                   rc, failure_delivered>>

InitSetColor == InitApp /\ rc = RcIdle /\ sc \in ScCalls
NextSetColor == \E ok \in BOOLEAN : SetColor(ok)
SpecSetColor == InitSetColor /\ [][NextSetColor]_vars

(* ==================== properties of the application ==================== *)
LatexKinds == {"latex_gen_svg", "latex_set_color", "latex_gen_png"}
\* the futures that change the working directory
CwdKinds == {"latex_gen_svg", "latex_gen_png", "typst_gen_svg",
             "typst_gen_png"}
\* a future is between its set_current_dir and its restore
InSection(t) ==
    /\ t.kind \in CwdKinds
    /\ t.pc \in {"write_src", "latex", "dvisvgm", "read_svg", "write_svg",
                 "magick", "typst", "restore"}
\* the step hands a new future to the executor in slot s
Dispatched(s) == tasks[s].kind = "idle" /\ tasks'[s].kind # "idle"
\* the step is the return of the future in slot s
Returned(s) == tasks[s].kind # "idle" /\ tasks'[s].kind = "idle"
\* the step handles a Compile, sent by the user or by another handler
CompileReceived ==
    \/ MsgCompile
    \/ \E f \in Formats : MsgFormat(f)
    \/ \E str \in DpiInputs : MsgSetDpi(str)
    \/ MsgSwitchBackend
    \/ backend = "Typst" /\ \E eq \in Equations : MsgEditEquation(eq)

C2_CwdRestoredOnEveryExit ==
    [][\A s \in Slots :
          (/\ Returned(s)
           /\ tasks[s].kind \in CwdKinds
           /\ tasks[s].pc # "current_dir")
          => cwd' = tasks[s].initial_dir]_vars

\* C3: a call in its relative-path section loses the working directory only
\* to a step of another call in flight; and with two calls for different
\* directories in flight that does happen (C3_Witness): a call's source file
\* lands in the other call's directory.
C3_OnlyAnotherCallMovesCwd ==
    [][\A s \in Slots :
          (/\ InSection(tasks[s])
           /\ tasks'[s].kind = tasks[s].kind
           /\ tasks'[s].pc # "current_dir"
           /\ cwd = tasks[s].dir
           /\ cwd' # tasks[s].dir)
          => \E t \in Slots \ {s} :
                /\ tasks[t].kind \in CwdKinds
                /\ tasks[t].pc \in {"set_current_dir", "restore"}
                /\ tasks'[t] # tasks[t]
                /\ tasks'[s] = tasks[s]]_vars

C3_Witness ==
    \E s, t \in Slots :
        /\ s # t
        /\ tasks[s].kind \in CwdKinds
        /\ tasks[t].kind \in CwdKinds
        /\ tasks[s].dir # tasks[t].dir
        /\ tasks[s].pc \in {"latex", "typst"}
        /\ cwd = tasks[t].dir
        /\ LET src == IF tasks[s].pc = "latex" THEN "eq.tex" ELSE "eq.typ" IN
           /\ ReadFile(fs, tasks[t].dir, src).eq = tasks[s].eq
           /\ ~FileExists(fs, tasks[s].dir, src)

\* C4: at most one render is in flight at any time.
C4_SingleRenderInFlight == Cardinality(InFlight) <= 1

\* C5: every failure of a render step, the copy to the destination included,
\* becomes State::Errored; no unwrap or expect ever fails.
C5_NoPanic ==
    /\ panicked = {}
    /\ \A s \in Slots : tasks[s].pc # "panicked"

\* C6: whenever the state is Svg(dir) or Png(dir), the artifact
\* <compiled_color>_eq.svg (or .png) that the view reads exists in dir.
C6_DisplayedArtifactExists ==
    GuiAlive => ~view_file_missing

\* C7: a Compile received while the equation is empty sets the state to
\* Errored(NoEquation) and dispatches nothing: no future, no process, no
\* file written.
C7_EmptyEquationGuard ==
    [][(CompileReceived /\ equation' = "")
       => /\ state' = Errored("NoEquation")
          /\ tasks' = tasks
          /\ fs' = fs
          /\ msgs' = msgs
          /\ cwd' = cwd]_vars

C7_Witness ==
    /\ backend = "LaTeX"
    /\ equation = ""
    /\ nmsgs = 1
    /\ state = Errored("NoEquation")
    /\ InFlight = {}

\* C15: a latex::gen_svg call that has not yet created its cache directory
\* finds no such directory: between the existence check of the Compile that
\* started it and its own fs::create_dir no other call creates the directory.
C15_GenSvgFindsNoDirectory ==
    \A s \in Slots :
        (/\ tasks[s].kind = "latex_gen_svg"
         /\ tasks[s].pc \in {"current_dir", "create_dir"})
        => ~DirExists(fs, tasks[s].dir)

\* the steps at which a call runs an external process
ToolSteps == {"latex", "dvisvgm", "magick", "typst"}
\* the steps of latex::gen_svg in the order of its source, and the error
\* each step fails with
GenSvgOrder == <<"current_dir", "create_dir", "set_current_dir", "write_src",
                 "latex", "dvisvgm", "read_svg", "write_svg", "restore">>
StepAfter(pc) ==
    GenSvgOrder[(CHOOSE i \in 1..Len(GenSvgOrder) : GenSvgOrder[i] = pc) + 1]
StepErrors(pc) ==
    CASE pc = "create_dir" -> {"TempDir"}
      [] pc \in {"set_current_dir", "restore"} -> {"GetSetCurrentDir"}
      [] pc \in {"write_src", "write_svg"} -> {"WriteFile"}
      [] pc \in ToolSteps -> {"ErrorSpawning", "CommandError"}
      [] pc = "read_svg" -> {"ReadFile"}
      [] OTHER -> {}

\* the step of call t in this transition did what it is there for
StepDone(t) ==
    /\ nfaults' = nfaults
    /\ t.pc = "create_dir" => ~DirExists(fs, t.dir) /\ DirExists(fs', t.dir)
    /\ t.pc = "set_current_dir" => cwd' = t.dir
    /\ t.pc = "write_src" => ReadFile(fs', cwd, "eq.tex").eq = t.eq
    /\ t.pc = "latex" =>
          /\ FileExists(fs, cwd, "eq.tex")
          /\ ReadFile(fs', cwd, "eq.dvi") = ReadFile(fs, cwd, "eq.tex")
    /\ t.pc = "dvisvgm" =>
          /\ FileExists(fs, cwd, "eq.dvi")
          /\ ReadFile(fs', cwd, "eq.svg") = ReadFile(fs, cwd, "eq.dvi")
    /\ t.pc = "read_svg" => FileExists(fs, t.dir, "eq.svg")
    /\ t.pc = "write_svg" =>
          FileExists(fs', t.dir, colored_name(t.color, "svg"))

\* the errors a backend operation can return
BackendErrors == {"TempDir", "GetSetCurrentDir", "WriteFile", "ReadFile",
                  "ErrorSpawning", "CommandError"}

\* C16: a latex::gen_svg call takes its steps in the order create directory,
\* change directory, write eq.tex, latex, dvisvgm, set_color, restore
\* directory; a step that fails ends the call with that step's error, with
\* no file written and no later step taken (a tool whose output is not
\* UTF-8 stops the call where it is).
C16_GenSvgOrderAndFailFast ==
    [][\A s \in Slots :
          (tasks[s].kind = "latex_gen_svg" /\ tasks'[s] # tasks[s]) =>
             \/ /\ tasks[s].pc # "restore"
                /\ tasks'[s].kind = "latex_gen_svg"
                /\ tasks'[s].pc = StepAfter(tasks[s].pc)
                /\ msgs' = msgs
                /\ StepDone(tasks[s])
             \/ /\ tasks[s].pc = "restore"
                /\ tasks'[s] = Idle
                /\ msgs' = Append(msgs, Result(tasks[s], "Ok"))
             \/ /\ tasks'[s] = Idle
                /\ \E e \in StepErrors(tasks[s].pc) :
                      msgs' = Append(msgs, Result(tasks[s], e))
                /\ fs' = fs
                /\ cwd' = cwd
             \/ /\ tasks[s].pc \in {"latex", "dvisvgm"}
                /\ tasks'[s] = [tasks[s] EXCEPT !.pc = "panicked"]
                /\ fs' = fs
                /\ msgs' = msgs
                /\ cwd' = cwd]_vars

\* gen_svg wrote eq.tex into its new directory and latex failed: the call is
\* over and neither eq.dvi, eq.svg nor a colored file is there
C16_Witness ==
    \E d \in LatexDirs :
        /\ InFlight = {}
        /\ backend = "LaTeX"
        /\ d = get_dir(equation_hash(equation))
        /\ Len(msgs) = 1
        /\ msgs[1].res \in {"ErrorSpawning", "CommandError"}
        /\ FileExists(fs, d, "eq.tex")
        /\ \A n \in FileNames \ {"eq.tex"} : ~FileExists(fs, d, n)

\* a gen_image call runs the compiler at most once: it reaches the compile
\* step from the write of eq.typ only, and leaves it for good
OneCompilerRunPerCall ==
    \A s \in Slots :
        (tasks[s].kind \in TypstKinds /\ tasks'[s] # tasks[s]) =>
            /\ tasks'[s].pc = "typst" => tasks[s].pc = "write_src"
            /\ tasks[s].pc = "typst" =>
                  \/ tasks'[s] = Idle
                  \/ tasks'[s].pc \in {"restore", "panicked"}

\* C17 (as stated): a Typst render request runs the compiler once, for SVG
\* and PNG alike: gen_image futures are dispatched by Compile only, one for
\* each Compile, and each runs the compiler at most once.
C17_OneCompilerRunPerRequest ==
    [][/\ OneCompilerRunPerCall
       /\ \A s \in Slots :
            (Dispatched(s) /\ tasks'[s].kind \in TypstKinds)
            => CompileReceived]_vars

\* C17 (amended): each gen_image call runs the compiler at most once; a
\* Compile with the Typst backend dispatches one call, for the SVG; when its
\* result is Ok and the format is PNG, the SvgGenerated handler dispatches a
\* second call, for the PNG.  A PNG request runs the compiler twice.
C17_PngRequestCompilesTwice ==
    [][/\ OneCompilerRunPerCall
       /\ \A s \in Slots :
            (Dispatched(s) /\ tasks'[s].kind = "typst_gen_svg")
            => CompileReceived /\ backend' = "Typst"
       /\ \A s \in Slots :
            (Dispatched(s) /\ tasks'[s].kind = "typst_gen_png")
            => /\ MsgResult
               /\ Head(msgs).type = "SvgGenerated"
               /\ Head(msgs).res = "Ok"
               /\ format = "png"
               /\ backend = "Typst"
       /\ (CompileReceived /\ backend' = "Typst" /\ equation' # "")
            => \E s \in Slots :
                  /\ Dispatched(s)
                  /\ tasks'[s].kind = "typst_gen_svg"
                  /\ \A t \in Slots \ {s} : tasks'[t] = tasks[t]]_vars

\* a PNG request has come to its final state: the compiler has written the
\* SVG and then the PNG of the equation
C17_Witness ==
    /\ backend = "Typst"
    /\ state = Png(TypstDir)
    /\ InFlight = {}
    /\ msgs = <<>>
    /\ nmsgs = 2
    /\ equation # ""
    /\ ReadFile(fs, TypstDir, colored_name(compiled_color, "svg")).eq
         = equation
    /\ ReadFile(fs, TypstDir, colored_name(compiled_color, "png")).eq
         = equation

\* C18: every PNG generation dispatched by the GUI is given a resolution of
\* at least 1.
C18_PngDpiPositive ==
    \A s \in Slots :
        tasks[s].kind \in {"latex_gen_png", "typst_gen_png"}
        => tasks[s].dpi >= 1

\* the step is a run_command of the call in slot s
Invoked(s) == tasks[s].pc \in ToolSteps /\ tasks'[s] # tasks[s]
\* the step handles a user message
UserStep == nmsgs' = nmsgs + 1

Artifact(f) ==
    ReadFile(f, cache_dir(backend, equation),
             colored_name(color_of(color), format))

\* C20: with deterministic tools, a render of the same equation, color,
\* format and backend that follows a finished render leaves the artifact
\* <color>_eq.<ext> with the content the earlier render left: no step of the
\* later render changes it.
C20_RenderTwiceSameArtifact ==
    [][(nmsgs >= 2 /\ Artifact(fs) # NoFile)
       => Artifact(fs') = Artifact(fs)]_vars

\* the second render of a request has finished and its artifact is there
C20_Witness ==
    /\ nmsgs = 2
    /\ Quiet
    /\ GuiAlive
    /\ state.tag = "Png"
    /\ equation = "b"
    /\ Artifact(fs) = Content(equation, color_of(color), dpi)

\* C14: once a LaTeX cache directory holds eq.tex and eq.svg, no later
\* operation changes either file.
C14_IntermediateWrittenOnce ==
    [][\A d \in LatexDirs :
          (FileExists(fs, d, "eq.tex") /\ FileExists(fs, d, "eq.svg"))
          => /\ ReadFile(fs', d, "eq.tex") = ReadFile(fs, d, "eq.tex")
             /\ ReadFile(fs', d, "eq.svg") = ReadFile(fs, d, "eq.svg")]_vars

\* C21: with every step succeeding and no other render in flight,
\* latex::gen_svg, latex::gen_png and typst::gen_image record the working
\* directory at entry and return with the working directory equal to it.
C21_SuccessPathRestoresCwd ==
    [][\A s \in Slots :
          /\ (tasks[s].kind \in CwdKinds /\ tasks[s].pc = "current_dir"
              /\ tasks'[s] # tasks[s])
             => tasks'[s].initial_dir = cwd
          /\ (Returned(s) /\ tasks[s].kind \in CwdKinds
              /\ msgs' = Append(msgs, Result(tasks[s], "Ok")))
             => /\ cwd' = tasks[s].initial_dir
                /\ cwd' = StartDir
                /\ cwd # cwd']_vars

\* a gen_image call has just returned Ok, and the working directory is the
\* one the application was started in
C21_Witness ==
    /\ InFlight = {}
    /\ backend = "Typst"
    /\ msgs = <<[type |-> "SvgGenerated", res |-> "Ok", dir |-> TypstDir]>>
    /\ cwd = StartDir
    /\ FileExists(fs, TypstDir, "eq.typ")

\* C23: a latex::gen_svg call that finds its cache directory present fails
\* with TempDir at its create_dir step, before it changes the working
\* directory: the working directory and every file are unchanged, and the
\* call is over, so it starts no process.
C23_ExistingDirectoryFailsEarly ==
    [][\A s \in Slots :
          (/\ tasks[s].kind = "latex_gen_svg"
           /\ tasks[s].pc = "create_dir"
           /\ DirExists(fs, tasks[s].dir)
           /\ tasks'[s] # tasks[s])
          => /\ tasks'[s] = Idle
             /\ msgs' = Append(msgs, Result(tasks[s], "TempDir"))
             /\ fs' = fs
             /\ cwd' = cwd]_vars

\* a second gen_svg for a directory that the first had created has returned
\* TempDir, and the first has not yet written eq.tex
C23_Witness ==
    \E i \in 1..Len(msgs) :
        /\ msgs[i].res = "TempDir"
        /\ DirExists(fs, msgs[i].dir)
        /\ ~FileExists(fs, msgs[i].dir, "eq.tex")

\* C24: with the LaTeX backend and the SVG format, a Compile that finds the
\* cache directory and <color>_eq.svg in it dispatches nothing: no future, no
\* file written, no result queued; the state becomes Svg of that directory
\* in the same step.
C24_CachedSvgNeedsNoBackend ==
    [][LET dir == get_dir(equation_hash(equation')) IN
       (/\ CompileReceived
        /\ backend' = "LaTeX"
        /\ format' = "svg"
        /\ equation' # ""
        /\ FileExists(fs, dir, colored_name(color_of(color'), "svg")))
       => /\ tasks' = tasks
          /\ fs' = fs
          /\ msgs' = msgs
          /\ cwd' = cwd
          /\ state' = Svg(dir)
          /\ compiled_color' = color_of(color')]_vars

\* the user went back to SVG for the cached equation: the state is Svg of
\* its directory while the only call in flight is the earlier gen_png
C24_Witness ==
    /\ backend = "LaTeX"
    /\ format = "svg"
    /\ nmsgs = 2
    /\ state = Svg(get_dir(equation_hash(equation)))
    /\ equation = CachedEquation
    /\ msgs = <<>>
    /\ \A s \in Slots : tasks[s].kind \in {"idle", "latex_gen_png"}
    /\ GuiAlive

SuccessForFormat ==
    /\ MsgResult
    /\ Head(msgs).res = "Ok"
    /\ Head(msgs).type = "SvgGenerated" => format = "svg"

\* C26: the handler of a successful result for the selected format leaves
\* the state Svg(dir) or Png(dir), whatever the state was: an Errored state
\* does not outlive it.  (A Compile that finds the SVG cached does the same
\* in its own step.)
C26_SuccessClearsError ==
    [][/\ SuccessForFormat =>
            state' = IF Head(msgs).type = "SvgGenerated"
                     THEN Svg(cache_dir(backend, equation))
                     ELSE Png(cache_dir(backend, equation))
       /\ (state.tag = "Errored" /\ state'.tag \notin {"Errored"}) =>
            \/ CompileReceived
            \/ SuccessForFormat]_vars

\* a failure was handled, so the state was Errored, and a successful result
\* handled after it has put Svg in its place
C26_Witness ==
    /\ failure_delivered
    /\ state.tag = "Svg"
    /\ GuiAlive
    /\ Quiet

\* C27: the LaTeX cache directory is a function of the equation's hash
\* alone: every LaTeX operation in flight works for latex_<hash> of its
\* equation, whatever its color and dpi and whatever was rendered before, and
\* equations with different hashes have different directories.
C27_DirectoryIsFunctionOfHash ==
    /\ \A s \in Slots :
          tasks[s].kind \in LatexKinds
          => tasks[s].dir = get_dir(equation_hash(tasks[s].eq))
    /\ \A s, t \in Slots :
          (tasks[s].kind \in LatexKinds /\ tasks[t].kind \in LatexKinds)
          => (equation_hash(tasks[s].eq) = equation_hash(tasks[t].eq)
              <=> tasks[s].dir = tasks[t].dir)
    /\ \A e1, e2 \in Equations :
          equation_hash(e1) # equation_hash(e2)
          => cache_dir("LaTeX", e1) # cache_dir("LaTeX", e2)
    /\ backend = "LaTeX" /\ state.tag \in {"Svg", "Png"}
          => \E e \in Equations : state.dir = get_dir(equation_hash(e))

\* two operations of different kind and color work for the directory of the
\* same equation
C27_Witness ==
    \E s, t \in Slots :
        /\ tasks[s].kind = "latex_gen_png"
        /\ tasks[t].kind = "latex_set_color"
        /\ tasks[s].color # tasks[t].color
        /\ tasks[s].eq = tasks[t].eq
        /\ tasks[s].dir = tasks[t].dir

\* C28: a LaTeX cache directory that exists while no gen_svg for it is in
\* flight contains eq.svg.
C28_DirectoryHoldsSvg ==
    \A d \in LatexDirs :
        (/\ DirExists(fs, d)
         /\ \A s \in Slots :
               ~(tasks[s].kind = "latex_gen_svg" /\ tasks[s].dir = d))
        => FileExists(fs, d, "eq.svg")

\* C29: the color given to the PNG step is compiled_color, the color of the
\* SVG step and of the artifact that is copied and displayed.
C29_PngColorIsCompiledColor ==
    [][\A s \in Slots :
          (Dispatched(s)
           /\ tasks'[s].kind \in {"latex_gen_png", "typst_gen_png"})
          => tasks'[s].color = compiled_color']_vars

\* C30: the directory the handler of a successful result uses (for the state,
\* for gen_png and for copy_to_dest) is the directory the finished render
\* worked for.
C30_HandlerUsesRenderDirectory ==
    [][(MsgResult /\ Head(msgs).res = "Ok")
       => cache_dir(backend, equation) = Head(msgs).dir]_vars

\* C31: a successful Typst compiler run of a gen_image call produces
\* <color>_eq.<ext> from the equation and color of that same call, whatever
\* other gen_image calls do in the session directory meanwhile.
C31_TypstCompilesOwnSource ==
    [][\A s \in Slots :
          (/\ tasks[s].kind \in TypstKinds
           /\ tasks[s].pc = "typst"
           /\ tasks'[s].kind = tasks[s].kind
           /\ tasks'[s].pc = "restore")
          => LET ext == IF tasks[s].kind = "typst_gen_svg" THEN "svg"
                        ELSE "png"
                 out == ReadFile(fs', cwd, colored_name(tasks[s].color, ext))
             IN  /\ out.eq = tasks[s].eq
                 /\ out.color = tasks[s].color]_vars

(* ===================== properties of run_command ======================= *)
HasBang(text) == \E i \in 1..Len(text) : text[i] = "!"
FirstBang(text) ==
    CHOOSE i \in 1..Len(text) :
        text[i] = "!" /\ \A j \in 1..(i - 1) : text[j] # "!"
From(text, i) == SubSeq(text, i, Len(text))
IsInfix(part, text) ==
    \E i \in 1..(Len(text) + 1) :
        /\ i + Len(part) - 1 <= Len(text)
        /\ part = SubSeq(text, i, i + Len(part) - 1)
\* position p starts a line of text that is empty or only whitespace
BlankLineAt(text, p) ==
    /\ p = 1 \/ text[p - 1] = "\n"
    /\ \/ p = Len(text) + 1
       \/ text[p] = "\n"
       \/ \E e \in p..Len(text) :
             /\ \A q \in p..e : text[q] = " "
             /\ e = Len(text) \/ text[e + 1] = "\n"
HasBlankLine(text) == \E p \in 1..(Len(text) + 1) : BlankLineAt(text, p)
\* part is text cut where its first blank line begins (or all of text)
CutAtFirstBlankLine(part, text) ==
    /\ Len(part) <= Len(text)
    /\ part = SubSeq(text, 1, Len(part))
    /\ ~HasBlankLine(part)
    /\ \/ Len(part) = Len(text)
       \/ /\ text[Len(part) + 1] = "\n"
          /\ Len(part) + 1 = Len(text) \/ BlankLineAt(text, Len(part) + 2)

Failed == rc.pc = "ret" /\ rc.outcome = "exit_fail"

\* C8 (as stated): on a nonzero exit the `!` rule is applied to whichever
\* text was chosen, stdout if non-empty and stderr otherwise; so with empty
\* stdout and a stderr containing `!` the message is the truncated stderr.
C8_RuleOnChosenText ==
    Failed =>
        LET chosen == IF rc.stdout # <<>> THEN rc.stdout ELSE rc.stderr IN
        IF HasBang(chosen)
        THEN CutAtFirstBlankLine(rc.message, From(chosen, FirstBang(chosen)))
        ELSE rc.message = chosen

\* C8 (amended): on a nonzero exit the message is taken from stdout if it is
\* non-empty, and then it is a part of stdout that starts at the first `!`
\* when there is one; with empty stdout the message is the whole of stderr,
\* unchanged, also when stderr contains `!`.
C8_StderrIsKeptWhole ==
    Failed =>
        /\ rc.stdout = <<>> => rc.message = rc.stderr
        /\ rc.stdout # <<>> =>
              /\ IsInfix(rc.message, rc.stdout)
              /\ HasBang(rc.stdout) =>
                    IsInfix(rc.message,
                            From(rc.stdout, FirstBang(rc.stdout)))

C8_Witness ==
    /\ Failed
    /\ rc.stdout = <<>>
    /\ HasBang(rc.stderr)
    /\ rc.stderr[1] # "!"
    /\ rc.message = rc.stderr

\* C9: for a non-empty stdout of a failed tool that contains `!`, the
\* message begins with the first `!` of stdout and runs up to, not including,
\* the first line that is empty or only whitespace; it has no blank line.
C9_MessageIsErrorBlock ==
    (Failed /\ rc.stdout # <<>> /\ HasBang(rc.stdout)) =>
        /\ rc.message # <<>>
        /\ rc.message[1] = "!"
        /\ CutAtFirstBlankLine(rc.message,
                               From(rc.stdout, FirstBang(rc.stdout)))
        /\ ~HasBlankLine(rc.message)

C9_Witness ==
    /\ Failed
    /\ HasBang(rc.stdout)
    /\ FirstBang(rc.stdout) > 1
    /\ Len(rc.message) + FirstBang(rc.stdout) - 1 < Len(rc.stdout) - 1
    /\ rc.message[1] = "!"

\* C10: for a non-empty stdout of a failed tool that contains no `!`, the
\* message is exactly stdout.
C10_NoBangKeepsStdout ==
    (Failed /\ rc.stdout # <<>> /\ ~HasBang(rc.stdout)) =>
        rc.message = rc.stdout

C10_Witness ==
    /\ Failed
    /\ rc.stdout # <<>>
    /\ ~HasBang(rc.stdout)
    /\ HasBlankLine(rc.stdout)
    /\ rc.message = rc.stdout

Occurrences(text) ==
    {i \in 1..Len(text) :
        /\ i + Len(PLACEHOLDER) - 1 <= Len(text)
        /\ SubSeq(text, i, i + Len(PLACEHOLDER) - 1) = PLACEHOLDER}
RECURSIVE Flatten(_)
Flatten(pieces) ==
    IF pieces = <<>> THEN <<>> ELSE Head(pieces) \o Flatten(Tail(pieces))
\* text with c in the place of every occurrence and every other character
\* kept, position by position
Recolored(text, c) ==
    Flatten([i \in 1..Len(text) |->
        IF i \in Occurrences(text) THEN c
        ELSE IF \E j \in Occurrences(text) :
                   j < i /\ i <= j + Len(PLACEHOLDER) - 1
             THEN <<>>
             ELSE <<text[i]>>])
\* the k-th call has returned Ok
ScOk(k) == k < sc.pc /\ sc.results[k].tag = "Ok"

\* C12: after set_color succeeded for color c on a directory containing
\* eq.svg, <c>_eq.svg holds the text of eq.svg with every occurrence of
\* #fff replaced by c and every other character unchanged.
C12_ColoredIsSourceRecolored ==
    \A k \in 1..2 :
        (ScOk(k) /\ sc.pc = k + 1) =>
            LET c == sc.colors[k] IN
            /\ sc.files[path_colored(c)].exists
            /\ sc.files[path_colored(c)].text =
                  Recolored(sc.initial[EqSvg].text, c)

\* eq.svg holds the placeholder twice with other text around it, and the
\* colored file has been written
C12_Witness ==
    /\ ScOk(1)
    /\ sc.pc = 2
    /\ Cardinality(Occurrences(sc.initial[EqSvg].text)) = 2
    /\ Len(sc.initial[EqSvg].text) > 2 * Len(PLACEHOLDER)
    /\ sc.colors[1] = <<"r", "e", "d">>

\* C13: set_color leaves eq.svg as it was; after set_color(c1) and then
\* set_color(c2) with c1 # c2, <c1>_eq.svg is as the first call wrote it and
\* <c2>_eq.svg exists; a call writes no file but its <color>_eq.svg.
C13_SetColorFrame ==
    /\ sc.pc \in 1..3 =>
          /\ sc.files[EqSvg] = sc.initial[EqSvg]
          /\ \A n \in ScNames :
                sc.files[n] # sc.initial[n]
                => \E k \in 1..2 : ScOk(k) /\ n = path_colored(sc.colors[k])
    /\ (sc.pc = 3 /\ sc.colors[1] # sc.colors[2]) =>
          /\ sc.files[path_colored(sc.colors[1])] =
                sc.first[path_colored(sc.colors[1])]
          /\ ScOk(2) => sc.files[path_colored(sc.colors[2])].exists
          /\ ~ScOk(2) => sc.files = sc.first

\* two calls with different colors have succeeded on an eq.svg that holds
\* the placeholder, so the two colored files differ
C13_Witness ==
    /\ sc.pc = 3
    /\ ScOk(1)
    /\ ScOk(2)
    /\ sc.colors[1] # sc.colors[2]
    /\ Occurrences(sc.initial[EqSvg].text) # {}
    /\ sc.files[path_colored(sc.colors[1])] #
          sc.files[path_colored(sc.colors[2])]

\* the files as they were when the k-th call began
ScBefore(k) == IF k = 1 THEN sc.initial ELSE sc.first

\* C22: a set_color call that finds no eq.svg returns ReadFile("eq.svg")
\* and writes no <color>_eq.svg; a call whose write fails returns WriteFile
\* with the destination path; in both cases eq.svg is as it was.
C22_SetColorErrors ==
    \A k \in 1..2 :
        sc.pc = k + 1 =>
            /\ ~ScBefore(k)[EqSvg].exists <=> sc.results[k].tag = "ReadFile"
            /\ sc.results[k].tag = "ReadFile" =>
                  /\ sc.results[k].path = EqSvg
                  /\ sc.files = ScBefore(k)
                  /\ ~sc.files[path_colored(sc.colors[k])].exists
            /\ sc.results[k].tag = "WriteFile" =>
                  /\ sc.results[k].path = path_colored(sc.colors[k])
                  /\ sc.files[EqSvg] = ScBefore(k)[EqSvg]
            /\ sc.results[k].tag \in {"Ok", "ReadFile", "WriteFile"}

\* one call failed for a missing eq.svg; another wrote one color and then
\* failed to write the other
C22_Witness ==
    \/ /\ sc.pc = 2
       /\ sc.results[1] = ScResult("ReadFile", EqSvg)
       /\ sc.files = sc.initial
    \/ /\ sc.pc = 3
       /\ ScOk(1)
       /\ sc.results[2].tag = "WriteFile"
       /\ sc.colors[1] # sc.colors[2]
       /\ sc.files[EqSvg].exists

====
